---- MODULE Spec2Model ----
(***************************************************************************)
(* Z80 one-pass assembler: the driver (main, checkPC, Error, the listing   *)
(* and the output-file stage of z80_assembler.cpp) together with the       *)
(* tokenizer, the symbol table and the encoder it calls.                   *)
(***************************************************************************)
EXTENDS Integers, Sequences, FiniteSets, TLC

(*-------------------------- program constants ---------------------------*)

\* const uint32_t RAMSIZE = 0x10000;
RAMSIZE == 65536

\* uint32_t minPC = RAMSIZE;
MinPCInit == RAMSIZE

\* uint32_t maxPC = 0;
MaxPCInit == 0

\* LineNo = 1;
LineNoInit == 1

\* PC = 0x0000;
PCInit == 0

\* int offset = -1;
NoOffset == -1

\* unsigned int start, size: 32 bits, kept as two 16-bit halves
Half == 65536

\* if ( start == 0x100 ) com = true;
ComStart == 256

(*------------------------------- bounds ---------------------------------*)

\* the longest source file that is read
MaxLines == 3

(*------------------------------ helpers ---------------------------------*)

SetMin(S) == CHOOSE x \in S : \A y \in S : x <= y

SetMax(S) == CHOOSE x \in S : \A y \in S : x >= y

Lo(v) == v % 256

Hi(v) == (v \div 256) % 256

(*---------------------------- source text -------------------------------*)
\* A line of text is a sequence of characters (one-character strings).

Names == {"L", "M"}

DecDigits == <<"0", "1", "2", "3", "4", "5", "6", "7", "8", "9">>

HexDigits == DecDigits \o <<"A", "B", "C", "D", "E", "F">>

IsHexDigit(c) == \E i \in 1..Len(HexDigits) : HexDigits[i] = c

IsDecDigit(c) == \E i \in 1..Len(DecDigits) : DecDigits[i] = c

DigitVal(c) == (CHOOSE i \in 1..Len(HexDigits) : HexDigits[i] = c) - 1

RECURSIVE HexVal(_)
HexVal(t) == IF t = <<>> THEN 0
             ELSE 16 * HexVal(SubSeq(t, 1, Len(t) - 1)) + DigitVal(t[Len(t)])

StartsWith(t, p) == Len(t) >= Len(p) /\ SubSeq(t, 1, Len(p)) = p

Rest(t, p) == SubSeq(t, Len(p) + 1, Len(t))

EOL == "\n"

T_NOP == <<"N", "O", "P">>

T_END == <<"E", "N", "D">>

T_JP == <<"J", "P", " ">>

T_JR == <<"J", "R", " ">>

T_DJNZ == <<"D", "J", "N", "Z", " ">>

T_ORG == <<"O", "R", "G", " ", "0", "x">>

\* the lines a source file is made of
SourceLines ==
    { <<>>, T_NOP, T_END, <<",">>,
      <<"L", ":">>, <<"M", ":">>,
      T_JP \o <<"L">>, T_JP \o <<"M">>, T_JP \o <<"L", "+", "1">>,
      T_JR \o <<"L">>, T_DJNZ \o <<"M">>,
      T_ORG \o <<"7", "E">>, T_ORG \o <<"7", "F">>,
      T_ORG \o <<"8", "1">>, T_ORG \o <<"8", "2">>,
      T_ORG \o <<"1", "0", "0">>, T_ORG \o <<"F", "F", "F", "E">> }

(*------------------------------ tokenizer -------------------------------*)

Stmt(op, sym, off, val) == [op |-> op, sym |-> sym, off |-> off, val |-> val]

SyntaxError == Stmt("?", "", 0, 0)

\* operand of a jump: NAME or NAME+d
ParseOperand(op, e) ==
    IF Len(e) = 1 /\ e[1] \in Names THEN Stmt(op, e[1], 0, 0)
    ELSE IF Len(e) = 3 /\ e[1] \in Names /\ e[2] = "+" /\ IsDecDigit(e[3])
         THEN Stmt(op, e[1], DigitVal(e[3]), 0)
    ELSE SyntaxError

TokenizeLine(t) ==
    IF t = <<>> THEN Stmt("", "", 0, 0)
    ELSE IF t = T_NOP THEN Stmt("NOP", "", 0, 0)
    ELSE IF t = T_END THEN Stmt("END", "", 0, 0)
    ELSE IF Len(t) = 2 /\ t[1] \in Names /\ t[2] = ":" THEN Stmt("LABEL", t[1], 0, 0)
    ELSE IF StartsWith(t, T_JP) THEN ParseOperand("JP", Rest(t, T_JP))
    ELSE IF StartsWith(t, T_JR) THEN ParseOperand("JR", Rest(t, T_JR))
    ELSE IF StartsWith(t, T_DJNZ) THEN ParseOperand("DJNZ", Rest(t, T_DJNZ))
    ELSE IF /\ StartsWith(t, T_ORG)
            /\ Len(t) > Len(T_ORG)
            /\ \A i \in (Len(T_ORG) + 1)..Len(t) : IsHexDigit(t[i])
         THEN Stmt("ORG", "", 0, HexVal(Rest(t, T_ORG)))
    ELSE SyntaxError

(*----------------------------- machine state ----------------------------*)
\* The globals an assembly step works on, as one record m:
\*   RAM, PC, minPC, maxPC      the memory image (RAM holds the addresses
\*                              written so far, every other one reads fill)
\*   SymTab, reachedEnd         symbol table and end-of-program signal
\*   err, halt                  message printed by Error, and whether it exited
\*   line                       LineNo while the step runs
\*   touched, checked, writer,  history: addresses that passed checkPC, all
\*   refs                       addresses handed to it, the source line owning
\*                              each written byte, the jumps encoded so far

ErrOverflow == "Address overflow -> exit"

ErrDuplicate == "symbol already defined"

ErrRange == "branch out of range"

ErrSyntax == "syntax error"

\* Error that prints the message and returns to its caller
Error_NoExit(m, s) == [m EXCEPT !.err = s]

\* Error( s ): print line number, message and line text, then exit( 1 )
Error(m, s) == [m EXCEPT !.err = s, !.halt = TRUE]

\* checkPC with the range updated before the bounds test
checkPC_UpdateFirst(m, pc) ==
    LET u == [m EXCEPT !.minPC = IF pc < @ THEN pc ELSE @,
                       !.maxPC = IF pc > @ THEN pc ELSE @,
                       !.checked = @ \cup {pc}]
    IN  IF pc >= RAMSIZE THEN Error(u, ErrOverflow)
        ELSE [u EXCEPT !.touched = @ \cup {pc}]

\* checkPC that only ever raises maxPC
checkPC_NoMin(m, pc) ==
    IF pc >= RAMSIZE THEN Error([m EXCEPT !.checked = @ \cup {pc}], ErrOverflow)
    ELSE [m EXCEPT !.maxPC = IF pc > @ THEN pc ELSE @,
                   !.touched = @ \cup {pc},
                   !.checked = @ \cup {pc}]

\* checkPC( pc ): fatal at or above RAMSIZE, else widen [minPC, maxPC]
checkPC(m, pc) ==
    IF pc >= RAMSIZE THEN Error([m EXCEPT !.checked = @ \cup {pc}], ErrOverflow)
    ELSE [m EXCEPT !.minPC = IF pc < @ THEN pc ELSE @,
                   !.maxPC = IF pc > @ THEN pc ELSE @,
                   !.touched = @ \cup {pc},
                   !.checked = @ \cup {pc}]

\* RAM[ a ] = b, on behalf of source line ln
Store(m, a, b, ln) ==
    [m EXCEPT !.RAM = (a :> b) @@ @, !.writer = (a :> ln) @@ @]

\* one byte at the cursor: bounds check, write, advance
Emit(m, b) ==
    IF m.halt THEN m
    ELSE LET c == checkPC(m, m.PC)
         IN  IF c.halt THEN c
             ELSE [Store(c, m.PC, b, m.line) EXCEPT !.PC = @ + 1]

(*------------------------------ symbol table ----------------------------*)

NewSymbol == [defined |-> FALSE, val |-> 0, type |-> 0, recalc |-> <<>>]

lookupOrCreate(m, name) ==
    IF name \in DOMAIN m.SymTab THEN m
    ELSE [m EXCEPT !.SymTab = (name :> NewSymbol) @@ @]

addFixup(m, name, f) ==
    IF m.halt THEN m
    ELSE [m EXCEPT !.SymTab[name].recalc = Append(@, f)]

Fixup(loc, width, enc, from, off, ln) ==
    [loc |-> loc, width |-> width, enc |-> enc, from |-> from, off |-> off, line |-> ln]

InBranchRange(d) == d >= -128 /\ d <= 127

\* the bytes of a 16-bit operand, low byte first
AbsBytes(v) == <<Lo(v), Hi(v)>>

\* a patch that drops the constant offset of an absolute reference
ApplyFixup_NoOffset(m, f, value) ==
    IF m.halt THEN m
    ELSE IF f.enc = "abs"
         THEN Store(Store(m, f.loc, AbsBytes(value)[1], f.line),
                    f.loc + 1, AbsBytes(value)[2], f.line)
    ELSE IF ~InBranchRange(value + f.off - f.from) THEN Error(m, ErrRange)
    ELSE Store(m, f.loc, (value + f.off - f.from) % 256, f.line)

\* a patch that measures the displacement from the cursor at patch time
ApplyFixup_FromCursor(m, f, value) ==
    IF m.halt THEN m
    ELSE IF f.enc = "abs"
         THEN Store(Store(m, f.loc, AbsBytes(value + f.off)[1], f.line),
                    f.loc + 1, AbsBytes(value + f.off)[2], f.line)
    ELSE IF ~InBranchRange(value + f.off - m.PC) THEN Error(m, ErrRange)
    ELSE Store(m, f.loc, (value + f.off - m.PC) % 256, f.line)

\* patch one pending reference now that its symbol has the value
ApplyFixup(m, f, value) ==
    IF m.halt THEN m
    ELSE IF f.enc = "abs"
         THEN Store(Store(m, f.loc, AbsBytes(value + f.off)[1], f.line),
                    f.loc + 1, AbsBytes(value + f.off)[2], f.line)
    ELSE IF ~InBranchRange(value + f.off - f.from) THEN Error(m, ErrRange)
    ELSE Store(m, f.loc, (value + f.off - f.from) % 256, f.line)

RECURSIVE Drain(_, _, _)
Drain(m, fs, value) ==
    IF fs = <<>> \/ m.halt THEN m
    ELSE Drain(ApplyFixup(m, Head(fs), value), Tail(fs), value)

\* define( name, value ) for a label
define(m, name, value) ==
    LET c == lookupOrCreate(m, name)
    IN  IF c.SymTab[name].defined THEN Error(c, ErrDuplicate)
        ELSE LET d == [c EXCEPT !.SymTab[name].defined = TRUE,
                                !.SymTab[name].val = value]
                 p == Drain(d, d.SymTab[name].recalc, value)
             IN  IF p.halt THEN p
                 ELSE [p EXCEPT !.SymTab[name].recalc = <<>>]

(*-------------------------------- encoder -------------------------------*)

OpJP == 195

OpJR == 24

OpDJNZ == 16

OpNOP == 0

Placeholder == 0

Resolved(m, sym) == sym \in DOMAIN m.SymTab /\ m.SymTab[sym].defined

\* the value of NAME+off once NAME is defined
Evaluate(m, sym, off) == m.SymTab[sym].val + off

Ref(ln, loc, size, kind, sym, off, after, fwd) ==
    [line |-> ln, loc |-> loc, size |-> size, kind |-> kind, sym |-> sym,
     off |-> off, after |-> after, fwd |-> fwd]

Note(m, r) == IF m.halt THEN m ELSE [m EXCEPT !.refs = @ \cup {r}]

\* JP nn : C3 lo hi
EncodeJP(m, sym, off) ==
    LET at == m.PC
        c  == lookupOrCreate(m, sym)
        o  == Emit(c, OpJP)
        r  == Ref(m.line, at, 3, "abs", sym, off, at + 3, ~Resolved(m, sym))
    IN  IF Resolved(m, sym)
        THEN Note(Emit(Emit(o, AbsBytes(Evaluate(c, sym, off))[1]),
                       AbsBytes(Evaluate(c, sym, off))[2]), r)
        ELSE Note(addFixup(Emit(Emit(o, Placeholder), Placeholder), sym,
                           Fixup(at + 1, 2, "abs", 0, off, m.line)), r)

\* JR e / DJNZ e : opcode, then target - (address after the instruction)
EncodeRel(m, opc, sym, off) ==
    LET at    == m.PC
        after == at + 2
        c     == lookupOrCreate(m, sym)
        o     == Emit(c, opc)
        r     == Ref(m.line, at, 2, "rel", sym, off, after, ~Resolved(m, sym))
    IN  IF Resolved(m, sym)
        THEN IF o.halt THEN o
             ELSE IF ~InBranchRange(Evaluate(c, sym, off) - after)
                  THEN Error(o, ErrRange)
             ELSE Note(Emit(o, (Evaluate(c, sym, off) - after) % 256), r)
        ELSE Note(addFixup(Emit(o, Placeholder), sym,
                           Fixup(at + 1, 1, "rel", after, off, m.line)), r)

\* CompileLine(): generate machine code for the tokenized line
CompileLine(m, cmd) ==
    CASE cmd.op = ""      -> m
      [] cmd.op = "NOP"   -> Emit(m, OpNOP)
      [] cmd.op = "END"   -> [m EXCEPT !.reachedEnd = TRUE]
      [] cmd.op = "LABEL" -> define(m, cmd.sym, m.PC)
      [] cmd.op = "ORG"   -> [m EXCEPT !.PC = cmd.val]
      [] cmd.op = "JP"    -> EncodeJP(m, cmd.sym, cmd.off)
      [] cmd.op = "JR"    -> EncodeRel(m, OpJR, cmd.sym, cmd.off)
      [] cmd.op = "DJNZ"  -> EncodeRel(m, OpDJNZ, cmd.sym, cmd.off)
      [] OTHER            -> Error(m, ErrSyntax)

(*-------------------------------- state ---------------------------------*)

VARIABLES
    listing, bin, hex, cArray, verboseMode, offset, fill, \* command line
    extOK,        \* the input file name ends in .asm / .ASM / .z80 / .Z80
    phase,        \* position of main
    remaining,    \* lines of the input file not yet read
    LineNo, LineBuf, Cmd, prevPC,
    RAM, PC, minPC, maxPC, SymTab, reachedEnd,
    lstOpen, lst, \* the listing file: open, and what was written to it
    outFiles,     \* the binary / hex / C files written: kind, start, size
    errMsg, errLine, errText, exitCode,
    \* history of the run, read by the properties only
    rawLine, linesRead, touched, checked, writer, refs, defSites

cmdline == <<listing, bin, hex, cArray, verboseMode, offset, fill, extOK>>

image == <<RAM, PC, minPC, maxPC, SymTab, reachedEnd>>

history == <<touched, checked, writer, refs, defSites>>

report == <<errMsg, errLine, errText>>

vars == <<cmdline, phase, remaining, LineNo, LineBuf, Cmd, prevPC, image,
          lstOpen, lst, outFiles, report, exitCode, rawLine, linesRead, history>>

Args(l, b, i, c, v, o, f, n) ==
    [listing |-> l, bin |-> b, hex |-> i, cArray |-> c, verboseMode |-> v,
     offset |-> o, fill |-> f, extOK |-> n]

\* the command lines the assembler is started with
CmdLines ==
    { Args(FALSE, FALSE, FALSE, FALSE, 0, NoOffset, 0, TRUE),   \* prog.asm
      Args(TRUE,  FALSE, FALSE, FALSE, 0, NoOffset, 0, TRUE),   \* -l prog.asm
      Args(FALSE, TRUE,  FALSE, FALSE, 0, NoOffset, 0, TRUE),   \* -b prog.asm
      Args(FALSE, TRUE,  FALSE, FALSE, 0, ComStart, 0, TRUE),   \* -b -o0100 prog.asm
      Args(FALSE, FALSE, TRUE,  TRUE,  1, 0, 255, TRUE),        \* -i -c -v -o0 -fFF prog.asm
      Args(TRUE,  TRUE,  TRUE,  TRUE,  0, NoOffset, 0, TRUE),   \* -l -b -i -c prog.asm
      Args(TRUE,  FALSE, FALSE, FALSE, 0, NoOffset, 0, FALSE),  \* -l prog.src
      Args(FALSE, TRUE,  FALSE, FALSE, 0, NoOffset, 0, FALSE) } \* -b prog.src

EmptyMap == [a \in {} |-> 0]

\* *outputfilename: the input name was copied to derive the output names from
outputfilename == (cArray \/ bin \/ hex \/ listing) /\ extOK

\* main up to the assembly loop
Init ==
    /\ \E a \in CmdLines :
         /\ listing = a.listing /\ bin = a.bin /\ hex = a.hex /\ cArray = a.cArray
         /\ verboseMode = a.verboseMode /\ offset = a.offset /\ fill = a.fill
         /\ extOK = a.extOK
    /\ remaining \in 0..MaxLines
    /\ LineNo = LineNoInit
    /\ LineBuf = <<>> /\ Cmd = Stmt("", "", 0, 0) /\ prevPC = PCInit
    /\ RAM = EmptyMap /\ PC = PCInit /\ minPC = MinPCInit /\ maxPC = MaxPCInit
    /\ SymTab = EmptyMap /\ reachedEnd = FALSE
    /\ lst = <<>> /\ outFiles = <<>>
    /\ errMsg = "" /\ errLine = 0 /\ errText = <<>>
    /\ rawLine = <<>> /\ linesRead = 0
    /\ touched = {} /\ checked = {} /\ writer = EmptyMap /\ refs = {}
    /\ defSites = {}
    \* the listing file is opened under the derived name; without one (an
    \* input name longer than four characters with another extension) fopen
    \* fails and main returns 1
    /\ lstOpen = (listing /\ outputfilename)
    /\ phase = IF listing /\ ~outputfilename THEN "Done" ELSE "Loop"
    /\ exitCode = IF listing /\ ~outputfilename THEN 1 ELSE 0

(*----------------------------- assembly loop ----------------------------*)

\* *( oneLine + strlen( oneLine ) - 1 ) = 0;
ChopLast(buf) == SubSeq(buf, 1, Len(buf) - 1)

\* a loop that runs on until the input is exhausted
LoopContinues_IgnoreEnd == remaining > 0

\* while ( !reachedEnd ) { oneLine = fgets( ... ); if ( !oneLine ) break;
LoopContinues == ~reachedEnd /\ remaining > 0

\* fgets, end-of-line removal, TokenizeLine
ReadLine ==
    /\ phase = "Loop"
    /\ LoopContinues
    /\ \E t \in SourceLines, nl \in BOOLEAN :
         \* only the last line of a file can lack its end-of-line marker
         /\ ~nl => (remaining = 1 /\ t # <<>>)
         /\ rawLine' = t
         /\ LineBuf' = ChopLast(IF nl THEN Append(t, EOL) ELSE t)
    /\ Cmd' = TokenizeLine(LineBuf')
    /\ prevPC' = PC
    /\ remaining' = remaining - 1
    /\ linesRead' = linesRead + 1
    /\ phase' = "Compile"
    /\ UNCHANGED <<cmdline, LineNo, image, lstOpen, lst, outFiles, report,
                   exitCode, history>>

LoopExit ==
    /\ phase = "Loop"
    /\ ~LoopContinues
    /\ phase' = "CrossRef"
    /\ UNCHANGED <<cmdline, remaining, LineNo, LineBuf, Cmd, prevPC, image,
                   lstOpen, lst, outFiles, report, exitCode, rawLine, linesRead,
                   history>>

Machine ==
    [RAM |-> RAM, PC |-> PC, minPC |-> minPC, maxPC |-> maxPC, SymTab |-> SymTab,
     reachedEnd |-> reachedEnd, err |-> "", halt |-> FALSE, line |-> LineNo,
     touched |-> touched, checked |-> checked, writer |-> writer, refs |-> refs]

RECURSIVE LTrim(_)
LTrim(t) == IF t # <<>> /\ Head(t) = " " THEN LTrim(Tail(t)) ELSE t

\* CompileLine(); a fatal error ends the process inside it
Compile ==
    /\ phase = "Compile"
    /\ LET m == CompileLine(Machine, Cmd)
       IN  /\ RAM' = m.RAM /\ PC' = m.PC /\ minPC' = m.minPC /\ maxPC' = m.maxPC
           /\ SymTab' = m.SymTab /\ reachedEnd' = m.reachedEnd
           /\ touched' = m.touched /\ checked' = m.checked
           /\ writer' = m.writer /\ refs' = m.refs
           /\ IF m.err # ""
              THEN errMsg' = m.err /\ errLine' = LineNo /\ errText' = LTrim(LineBuf)
              ELSE UNCHANGED report
           /\ phase' = IF m.halt THEN "Fatal" ELSE "List"
           /\ exitCode' = IF m.halt THEN 1 ELSE exitCode
    /\ defSites' = IF Cmd.op = "LABEL" THEN defSites \cup {<<Cmd.sym, linesRead>>}
                   ELSE defSites
    /\ UNCHANGED <<cmdline, remaining, LineNo, LineBuf, Cmd, prevPC, lstOpen, lst,
                   outFiles, rawLine, linesRead>>

\* listOneLine( prevPC, PC, oneLine )
listOneLine(firstPC, lastPC, oneLine) ==
    [kind |-> "line", first |-> firstPC, last |-> lastPC, text |-> oneLine]

\* a counter that also counts the line ahead
NextLineNo_Twice(n) == n + 2

\* LineNo++
NextLineNo(n) == n + 1

ListLine ==
    /\ phase = "List"
    /\ lst' = IF lstOpen THEN Append(lst, listOneLine(prevPC, PC, LineBuf)) ELSE lst
    /\ LineNo' = NextLineNo(LineNo)
    /\ phase' = "Loop"
    /\ UNCHANGED <<cmdline, remaining, LineBuf, Cmd, prevPC, image, lstOpen,
                   outFiles, report, exitCode, rawLine, linesRead, history>>

(*--------------------------- cross reference ----------------------------*)

\* SymTab[ 0 .. 255 ] is walked bucket by bucket
BucketOrder == <<"L", "M">>

\* the two tests of the cross reference taken in the other order
XrefLine_ValueFirst(s) ==
    IF SymTab[s].type = 0
    THEN [kind |-> "value", name |-> s, val |-> SymTab[s].val]
    ELSE [kind |-> "undefined", name |-> s, val |-> 0]

\* if ( s->recalc ) "is undefined" else if ( !s->type ) value
XrefLine(s) ==
    IF SymTab[s].recalc # <<>>
    THEN [kind |-> "undefined", name |-> s, val |-> 0]
    ELSE [kind |-> "value", name |-> s, val |-> SymTab[s].val]

Listed(s) == s \in DOMAIN SymTab /\ (SymTab[s].recalc # <<>> \/ SymTab[s].type = 0)

XrefLines ==
    LET sel == SelectSeq(BucketOrder, Listed)
    IN  [i \in 1..Len(sel) |-> XrefLine(sel[i])]

XrefHeader == [kind |-> "header", name |-> "", val |-> 0]

CrossReference ==
    /\ phase = "CrossRef"
    /\ lst' = IF lstOpen THEN Append(lst, XrefHeader) \o XrefLines ELSE lst
    /\ lstOpen' = FALSE
    /\ phase' = "Summary"
    /\ UNCHANGED <<cmdline, remaining, LineNo, LineBuf, Cmd, prevPC, image,
                   outFiles, report, exitCode, rawLine, linesRead, history>>

\* if ( listing || verboseMode ) { if ( minPC <= maxPC ) ... else exit( 1 ); }
Summary ==
    /\ phase = "Summary"
    /\ IF (listing \/ verboseMode > 0) /\ ~(minPC <= maxPC)
       THEN phase' = "Done" /\ exitCode' = 1
       ELSE phase' = "Output" /\ UNCHANGED exitCode
    /\ UNCHANGED <<cmdline, remaining, LineNo, LineBuf, Cmd, prevPC, image,
                   lstOpen, lst, outFiles, report, rawLine, linesRead, history>>

(*------------------------------ output files ----------------------------*)

\* unsigned int start, size
OutStart == IF offset < 0 THEN minPC ELSE offset

\* a 32-bit unsigned value as [hi, lo], value hi * 2^16 + lo
U32(n) == [hi |-> (n \div Half) % Half, lo |-> n % Half]

\* a - b in unsigned 32-bit arithmetic
Sub32(a, b) ==
    [lo |-> (a.lo - b.lo) % Half,
     hi |-> (a.hi - b.hi - (IF a.lo < b.lo THEN 1 ELSE 0)) % Half]

\* size = maxPC + 1 - start
OutSize == Sub32(U32(maxPC + 1), U32(OutStart))

OutFile(kind) == [kind |-> kind, start |-> OutStart, size |-> OutSize]

Formats ==
    (IF bin THEN <<OutFile(IF OutStart = ComStart THEN "com" ELSE "bin")>> ELSE <<>>)
    \o (IF hex THEN <<OutFile("hex")>> ELSE <<>>)
    \o (IF cArray THEN <<OutFile("h")>> ELSE <<>>)

\* the bytes handed to fwrite / ihex_write_bytes / the C array loop lie in RAM
InsideImage(f) ==
    \/ f.size.hi = 0 /\ f.start + f.size.lo <= RAMSIZE
    \/ f.size.hi = 1 /\ f.size.lo = 0 /\ f.start = 0

WriteOutput ==
    /\ phase = "Output"
    /\ IF outputfilename
       THEN /\ outFiles' = Formats
            \* reading past the allocation is undefined: the run may die
            /\ \/ phase' = "Done"
               \/ /\ \E i \in 1..Len(Formats) : ~InsideImage(Formats[i])
                  /\ phase' = "Crashed"
       ELSE /\ outFiles' = outFiles
            /\ phase' = "Done"
    /\ UNCHANGED <<cmdline, remaining, LineNo, LineBuf, Cmd, prevPC, image,
                   lstOpen, lst, report, exitCode, rawLine, linesRead, history>>

Next ==
    \/ ReadLine
    \/ LoopExit
    \/ Compile
    \/ ListLine
    \/ CrossReference
    \/ Summary
    \/ WriteOutput

Spec == Init /\ [][Next]_vars

(*------------------------------ properties ------------------------------*)

Byte(a) == IF a \in DOMAIN RAM THEN RAM[a] ELSE fill

Defined(s) == s \in DOMAIN SymTab /\ SymTab[s].defined

\* every byte of the instruction is still the one its source line wrote
Intact(r) ==
    \A a \in r.loc..(r.loc + r.size - 1) : a \in DOMAIN writer /\ writer[a] = r.line

Target(r) == SymTab[r.sym].val + r.off

LoopEnded == phase \notin {"Loop", "Compile", "List"}

AfterXref == phase \in {"Summary", "Output", "Done", "Crashed"} /\ errMsg = ""

\* C1: an address >= 0x10000 handed to checkPC ends the run in the fatal
\* "address overflow" state without entering minPC / maxPC; hence every
\* touched or written address, and maxPC, stays within 0 .. 0xFFFF.
C1_BoundsCheck ==
    /\ (\E a \in checked : a >= RAMSIZE) => (phase = "Fatal" /\ errMsg = ErrOverflow)
    /\ \A a \in touched \cup DOMAIN RAM : 0 <= a /\ a < RAMSIZE
    /\ minPC \in touched \cup {MinPCInit}
    /\ maxPC \in touched \cup {MaxPCInit}
    /\ maxPC < RAMSIZE

C1_Witness ==
    /\ phase = "Fatal" /\ errMsg = ErrOverflow
    /\ \E a \in checked : a >= RAMSIZE
    /\ touched # {} /\ maxPC = RAMSIZE - 1

\* C2: minPC is the smallest and maxPC the largest address written so far,
\* and minPC > maxPC holds exactly when nothing has been written.
C2_TouchedRange ==
    /\ (DOMAIN RAM = {}) <=> (minPC > maxPC)
    /\ DOMAIN RAM # {} => (minPC = SetMin(DOMAIN RAM) /\ maxPC = SetMax(DOMAIN RAM))

C2_Witness ==
    /\ Cardinality(DOMAIN RAM) >= 3
    /\ 0 < minPC /\ minPC + 2 < maxPC

\* C3 as stated: after a fatal error no file holds anything written by the
\* run, the listing included.
C3_NoOutputAtAll == errMsg # "" => (outFiles = <<>> /\ lst = <<>>)

\* C3 amended: a fatal error ends the run at once with exit status 1 and no
\* binary, hex or C file; the listing file holds exactly the entries of the
\* lines before the failing one, and no cross reference.
C3_FatalStopsRun ==
    errMsg # "" =>
        /\ phase = "Fatal" /\ exitCode = 1
        /\ outFiles = <<>>
        /\ Len(lst) = (IF lstOpen THEN errLine - 1 ELSE 0)
        /\ \A i \in 1..Len(lst) : lst[i].kind = "line"

C3_Witness ==
    /\ phase = "Fatal" /\ errMsg # ""
    /\ lstOpen /\ Len(lst) = 2 /\ bin

\* C4: whether LABEL was defined before or after JP LABEL was assembled, the
\* instruction holds C3 followed by the low and high byte of the label's value
\* (plus the constant offset): patching on definition writes what immediate
\* resolution writes.
C4_ForwardReference ==
    errMsg = "" =>
        \A r \in refs :
            (r.kind = "abs" /\ Defined(r.sym) /\ Intact(r)) =>
                <<Byte(r.loc), Byte(r.loc + 1), Byte(r.loc + 2)>>
                    = <<OpJP>> \o AbsBytes(Target(r))

C4_Witness ==
    /\ errMsg = ""
    /\ \E r \in refs :
         /\ r.kind = "abs" /\ r.fwd /\ r.off = 1 /\ Defined(r.sym) /\ Intact(r)
         /\ Target(r) > 256 /\ Byte(r.loc + 1) # 0 /\ Byte(r.loc + 2) # 0

\* C5: a symbol that is referenced and never defined does not stop the run;
\* at the end its references still hold the placeholder (JP gives C3 00 00)
\* and the cross reference lists every symbol with pending fixups as undefined.
C5_UndefinedReported ==
    AfterXref =>
        /\ \A s \in DOMAIN SymTab :
             SymTab[s].recalc # <<>> =>
                /\ ~SymTab[s].defined
                /\ \A i \in 1..Len(SymTab[s].recalc) :
                     LET f == SymTab[s].recalc[i]
                     IN  \A a \in f.loc..(f.loc + f.width - 1) :
                            (a \in DOMAIN writer /\ writer[a] = f.line)
                                => Byte(a) = Placeholder
                /\ (listing /\ outputfilename) =>
                      \E i \in 1..Len(lst) :
                          lst[i] = [kind |-> "undefined", name |-> s, val |-> 0]
        /\ \A r \in refs :
             (r.kind = "abs" /\ ~Defined(r.sym) /\ Intact(r)) =>
                <<Byte(r.loc), Byte(r.loc + 1), Byte(r.loc + 2)>>
                    = <<OpJP, Placeholder, Placeholder>>

C5_Witness ==
    /\ phase = "Done" /\ exitCode = 0 /\ listing
    /\ \A s \in Names : s \in DOMAIN SymTab /\ SymTab[s].recalc # <<>>
    /\ \E r \in refs : r.kind = "abs" /\ Intact(r)

\* steps main still has to take: three per unread line, then the tail
Rank ==
    CASE phase = "Loop"     -> 3 * remaining + 6
      [] phase = "Compile"  -> 3 * remaining + 8
      [] phase = "List"     -> 3 * remaining + 7
      [] phase = "CrossRef" -> 5
      [] phase = "Summary"  -> 4
      [] phase = "Output"   -> 3
      [] OTHER              -> 0

\* inside the loop main always has a step to take: the loop test goes one way
\* or the other, and encoding a tokenized line is defined for every statement
CanStep ==
    CASE phase = "Loop"    -> ENABLED (ReadLine \/ LoopExit)
      [] phase = "Compile" -> CompileLine(Machine, Cmd).PC \in Nat
      [] phase = "List"    -> ENABLED ListLine
      [] OTHER             -> TRUE

\* C6: once END has set reachedEnd no further line is read, tokenized or
\* encoded and memory, symbol table and cursor stay as they are; a line is
\* read only when the previous one is done; the loop always comes to an end
\* (every step lowers Rank, and main is never stuck inside the loop).
C6_EndStopsAssembly ==
    /\ [][/\ reachedEnd =>
                /\ RAM' = RAM /\ SymTab' = SymTab /\ PC' = PC
                /\ LineBuf' = LineBuf /\ Cmd' = Cmd /\ linesRead' = linesRead
          /\ linesRead' # linesRead =>
                (phase = "Loop" /\ phase' = "Compile" /\ linesRead' = linesRead + 1)
          /\ Rank' < Rank]_vars
    /\ []CanStep

C6_Witness ==
    /\ phase = "Done" /\ reachedEnd /\ remaining > 0 /\ DOMAIN RAM # {}

\* C7: while a line is encoded LineNo is its 1-based position in the source;
\* a second definition of a label is fatal and reported with its line.
C7_LineNumber ==
    /\ phase = "Compile" => LineNo = linesRead
    /\ \A n \in Names :
         LET at == {d[2] : d \in {e \in defSites : e[1] = n}}
         IN  /\ Cardinality(at) <= 2
             /\ Cardinality(at) = 2 =>
                   /\ phase = "Fatal" /\ errMsg = ErrDuplicate
                   /\ errLine = SetMax(at)

C7_Witness ==
    /\ phase = "Fatal" /\ errMsg = ErrDuplicate /\ errLine = 3
    /\ <<"M", 1>> \in defSites /\ <<"M", 3>> \in defSites

\* C8: in a run without fatal error every JR / DJNZ whose target is defined,
\* resolved at once or patched later, has a displacement within -128 .. 127
\* and stores target - (address after the instruction), the address being
\* the one of the instruction and not the cursor when it was patched.
C8_RelativeBranch ==
    /\ errMsg = "" =>
         \A r \in refs :
            (r.kind = "rel" /\ Defined(r.sym)) =>
                /\ r.after = r.loc + 2
                /\ InBranchRange(Target(r) - r.after)
                /\ Intact(r) => Byte(r.loc + 1) = (Target(r) - r.after) % 256
    /\ errMsg = ErrRange => phase = "Fatal"

C8_Witness ==
    /\ errMsg = ""
    /\ \E r \in refs :
         /\ r.kind = "rel" /\ r.fwd /\ Defined(r.sym) /\ Intact(r)
         /\ Target(r) - r.after = 127 /\ PC # r.after

\* C9 as stated: every output file is read from a range inside the image that
\* ends at maxPC.
C9_OutputRange ==
    \A i \in 1..Len(outFiles) :
        /\ outFiles[i].start <= maxPC
        /\ outFiles[i].size.hi = 0
        /\ outFiles[i].start + outFiles[i].size.lo = maxPC + 1
        /\ maxPC + 1 <= RAMSIZE

\* C10 as stated: the tokenizer is handed the text of the source line without
\* its end-of-line marker, nothing else removed.
C10_LineText == phase = "Compile" => LineBuf = rawLine

====
